---- MODULE Spec2Model ----
(***************************************************************************)
(* Expense-Tracker-Pro (main.py): the transactions table of expenses.db    *)
(* and the five tools that read and write it, called by concurrent         *)
(* callers.  Every tool opens its own aiosqlite connection; a coroutine    *)
(* can be suspended at each await, so a tool is a sequence of steps.       *)
(* A connection that has executed a write statement holds SQLite's write   *)
(* lock until it commits or closes; another connection's write statement   *)
(* waits for the lock (busy handler).  A failure of the storage itself     *)
(* (I/O error, busy timeout) is not modelled.                              *)
(***************************************************************************)
EXTENDS Integers, Sequences, FiniteSets, TLC

\* ---------------------------------------------------------------- bounds
MaxSeq == 2      \* ids ever assigned (cap on the AUTOINCREMENT counter)
MaxLimit == 2    \* largest limit passed to list_transactions

\* ---------------------------------------------------------------- inputs
Procs == {"c1", "c2"}
NoProc == "none"

\* categories.json, key "categories": category -> list of subcategories
Catalog == [food |-> {"groceries", "dining"}, travel |-> {"flight"}]

CategoryInputs == {"food", "travel", "misc"}
SubcategoryInputs == {"groceries", "flight"}
TypeInputs == {"expense", "credit", "refund"}
Amounts == {0, 40, 100}
Notes == {"", "n"}
Dates == {"2026-01-01"}   \* datetime.now().strftime("%Y-%m-%d")
Ids == 1..(MaxSeq + 1)
Limits == (-1)..MaxLimit

\* Optional[...] parameters: None is the empty set, a supplied value v is {v}
None == {}
Some(v) == {v}
OptAmounts == {None} \cup {Some(a) : a \in Amounts}
OptNotes == {None} \cup {Some(n) : n \in Notes}

VARIABLES
    rows,       \* committed content of table transactions: a set of row records
    seq,        \* committed sqlite_sequence value of the table (largest id ever assigned)
    lock,       \* the caller whose connection holds the write lock, or NoProc
    wrows,      \* the lock holder's uncommitted view of the table
    wseq,       \* the lock holder's uncommitted sqlite_sequence value
    pc,         \* per caller: where its tool call stands
    args,       \* per caller: the arguments of its call
    ret,        \* per caller: the value the call returned
    created,    \* history: ids of the rows inserted by completed add_transaction calls
    nCreated,   \* history: number of completed successful add_transaction calls
    doneAtCall, \* history, per caller: value of created when its add_transaction call started
    removed,    \* history: ids of rows that a completed delete_transaction removed
    deleted,    \* history: ids for which a delete_transaction call has completed
    deletedAssigned \* history: those of them that had been assigned when the delete completed

vars == <<rows, seq, lock, wrows, wseq, pc, args, ret,
          created, nCreated, doneAtCall, removed, deleted, deletedAssigned>>

hist == <<created, nCreated, doneAtCall, removed, deleted, deletedAssigned>>

NoArgs == [op |-> "none"]
NoRet == [kind |-> "none"]

RowIds(t) == {r.id : r \in t}

\* ------------------------------------------------------------- pure parts

\* the subcategory test left out
InvalidPair_KeyOnly(category, subcategory) ==
    category \notin DOMAIN Catalog

\* line 46: category not in data or subcategory not in data[category]
InvalidPair(category, subcategory) ==
    \/ category \notin DOMAIN Catalog
    \/ subcategory \notin Catalog[category]

\* line 52: f"{category}:{subcategory}"
Composite(category, subcategory) == category \o ":" \o subcategory

\* the column declared without its CHECK constraint
CheckType_Any(type) == TRUE

\* line 25: CHECK(type IN ('expense', 'credit'))
CheckType(type) == type \in {"expense", "credit"}

SetMax(S) == CHOOSE x \in S : \A y \in S : y <= x

\* INTEGER PRIMARY KEY without AUTOINCREMENT: one more than the largest id
\* the table holds now
NextId_MaxRowid(t, s) == SetMax({0} \cup RowIds(t)) + 1

\* line 21: INTEGER PRIMARY KEY AUTOINCREMENT: one more than the largest id
\* the table has ever held
NextId(t, s) == SetMax({s} \cup RowIds(t)) + 1

Init ==
    /\ rows = {}
    /\ seq = 0
    /\ lock = NoProc
    /\ wrows = {}
    /\ wseq = 0
    /\ pc = [p \in Procs |-> "idle"]
    /\ args = [p \in Procs |-> NoArgs]
    /\ ret = [p \in Procs |-> NoRet]
    /\ created = {}
    /\ nCreated = 0
    /\ doneAtCall = [p \in Procs |-> {}]
    /\ removed = {}
    /\ deleted = {}
    /\ deletedAssigned = {}

\* writers that do not exclude each other
CanWrite_NoLock(p) == TRUE

\* The write lock is free, or p's connection already holds it
CanWrite(p) == lock \in {NoProc, p}

\* p's connection sees its own transaction if it holds the lock, else the committed state
ViewRows(p) == IF lock = p THEN wrows ELSE rows
ViewSeq(p) == IF lock = p THEN wseq ELSE seq

\* db.commit(): p's transaction, if any, becomes the committed state
Commit(p) ==
    /\ rows' = ViewRows(p)
    /\ seq' = ViewSeq(p)
    /\ lock' = IF lock = p THEN NoProc ELSE lock
    /\ wrows' = IF lock = p THEN ViewRows(p) ELSE wrows
    /\ wseq' = IF lock = p THEN ViewSeq(p) ELSE wseq

\* ---------------------------------------------------------- add_transaction

\* lines 41-47: the call reads the catalog and validates the pair
add_transaction(p, inputs) ==
    /\ pc[p] = "idle"
    /\ seq + Cardinality({q \in Procs : pc[q] \in {"add_insert", "add_commit"}}) < MaxSeq
    /\ \E a \in inputs :
          /\ args' = [args EXCEPT ![p] =
                 [op |-> "add", amount |-> a.amount, category |-> a.category,
                  subcategory |-> a.subcategory, type |-> a.type, note |-> a.note]]
          /\ IF InvalidPair(a.category, a.subcategory)
             THEN /\ pc' = [pc EXCEPT ![p] = "ret"]
                  /\ ret' = [ret EXCEPT ![p] = [kind |-> "invalid"]]
             ELSE /\ pc' = [pc EXCEPT ![p] = "add_insert"]
                  /\ ret' = ret
    /\ doneAtCall' = [doneAtCall EXCEPT ![p] = created]
    /\ UNCHANGED <<rows, seq, lock, wrows, wseq,
                   created, nCreated, removed, deleted, deletedAssigned>>

\* the category stored without its subcategory
NewRow_CategoryOnly(p, now) ==
    [id |-> NextId(ViewRows(p), ViewSeq(p)),
     date |-> now,
     amount |-> args[p].amount,
     category |-> args[p].category,
     type |-> args[p].type,
     note |-> args[p].note]

\* lines 50-53: the row INSERT builds
NewRow(p, now) ==
    [id |-> NextId(ViewRows(p), ViewSeq(p)),
     date |-> now,
     amount |-> args[p].amount,
     category |-> Composite(args[p].category, args[p].subcategory),
     type |-> args[p].type,
     note |-> args[p].note]

\* lines 50-53: INSERT; a row that fails the CHECK constraint raises, the
\* connection closes and nothing was written
add_transaction_insert(p) ==
    /\ pc[p] = "add_insert"
    /\ CanWrite(p)
    /\ IF CheckType(args[p].type)
       THEN /\ \E now \in Dates : wrows' = ViewRows(p) \cup {NewRow(p, now)}
            /\ wseq' = NextId(ViewRows(p), ViewSeq(p))
            /\ lock' = p
            /\ pc' = [pc EXCEPT ![p] = "add_commit"]
            /\ ret' = ret
       ELSE /\ pc' = [pc EXCEPT ![p] = "ret"]
            /\ ret' = [ret EXCEPT ![p] = [kind |-> "IntegrityError"]]
            /\ UNCHANGED <<wrows, wseq, lock>>
    /\ UNCHANGED <<rows, seq, args, hist>>

\* lines 54-55: commit and confirmation
add_transaction_commit(p) ==
    /\ pc[p] = "add_commit"
    /\ Commit(p)
    /\ pc' = [pc EXCEPT ![p] = "ret"]
    /\ ret' = [ret EXCEPT ![p] =
           [kind |-> "recorded", type |-> args[p].type,
            amount |-> args[p].amount, category |-> args[p].category]]
    /\ created' = created \cup (RowIds(ViewRows(p)) \ RowIds(rows))
    /\ nCreated' = nCreated + 1
    /\ UNCHANGED <<args, doneAtCall, removed, deleted, deletedAssigned>>

\* -------------------------------------------------------- list_transactions

\* line 62: ORDER BY id DESC
RECURSIVE OrderByIdDesc(_)
OrderByIdDesc(t) ==
    IF t = {} THEN <<>>
    ELSE LET top == CHOOSE r \in t : \A q \in t : q.id <= r.id
         IN <<top>> \o OrderByIdDesc(t \ {top})

\* the last n rows of the ordering instead of the first n
Limit_Tail(s, n) ==
    IF n < 0 \/ n >= Len(s) THEN s ELSE SubSeq(s, Len(s) - n + 1, Len(s))

\* line 62: LIMIT ?  (a negative limit is no limit in SQLite)
Limit(s, n) ==
    IF n < 0 \/ n >= Len(s) THEN s ELSE SubSeq(s, 1, n)

\* line 58
list_transactions(p, limits) ==
    /\ pc[p] = "idle"
    /\ \E limit \in limits :
          args' = [args EXCEPT ![p] = [op |-> "list", limit |-> limit]]
    /\ pc' = [pc EXCEPT ![p] = "list_read"]
    /\ UNCHANGED <<rows, seq, lock, wrows, wseq, ret, hist>>

\* lines 60-64: one SELECT over the committed table
list_transactions_select(p) ==
    /\ pc[p] = "list_read"
    /\ pc' = [pc EXCEPT ![p] = "ret"]
    /\ ret' = [ret EXCEPT ![p] =
           [kind |-> "rows",
            rows |-> Limit(OrderByIdDesc(ViewRows(p)), args[p].limit)]]
    /\ UNCHANGED <<rows, seq, lock, wrows, wseq, args, hist>>

\* ------------------------------------------------------- update_transaction

\* lines 70, 72: "if amount:", "if note:" -- None, 0 and "" are all falsy
TruthyAmount(o) == \E v \in o : v # 0
TruthyNote(o) == \E v \in o : v # ""
Val(o) == CHOOSE v \in o : TRUE

\* the UPDATE without its WHERE clause
SetAmount_NoWhere(t, id, v) == {[r EXCEPT !.amount = v] : r \in t}

\* line 71: UPDATE transactions SET amount = ? WHERE id = ?
SetAmount(t, id, v) == {IF r.id = id THEN [r EXCEPT !.amount = v] ELSE r : r \in t}

\* line 73: UPDATE transactions SET note = ? WHERE id = ?
SetNote(t, id, v) == {IF r.id = id THEN [r EXCEPT !.note = v] ELSE r : r \in t}

\* line 67
update_transaction(p, ids, amounts, notes) ==
    /\ pc[p] = "idle"
    /\ \E id \in ids, amount \in amounts, note \in notes :
          args' = [args EXCEPT ![p] =
              [op |-> "update", id |-> id, amount |-> amount, note |-> note]]
    /\ pc' = [pc EXCEPT ![p] = "upd_amount"]
    /\ UNCHANGED <<rows, seq, lock, wrows, wseq, ret, hist>>

\* lines 70-71
update_transaction_amount(p) ==
    /\ pc[p] = "upd_amount"
    /\ IF TruthyAmount(args[p].amount)
       THEN /\ CanWrite(p)
            /\ wrows' = SetAmount(ViewRows(p), args[p].id, Val(args[p].amount))
            /\ wseq' = ViewSeq(p)
            /\ lock' = p
       ELSE UNCHANGED <<wrows, wseq, lock>>
    /\ pc' = [pc EXCEPT ![p] = "upd_note"]
    /\ UNCHANGED <<rows, seq, args, ret, hist>>

\* lines 72-73
update_transaction_note(p) ==
    /\ pc[p] = "upd_note"
    /\ IF TruthyNote(args[p].note)
       THEN /\ CanWrite(p)
            /\ wrows' = SetNote(ViewRows(p), args[p].id, Val(args[p].note))
            /\ wseq' = ViewSeq(p)
            /\ lock' = p
       ELSE UNCHANGED <<wrows, wseq, lock>>
    /\ pc' = [pc EXCEPT ![p] = "upd_commit"]
    /\ UNCHANGED <<rows, seq, args, ret, hist>>

\* lines 74-75: commit and confirmation, whether or not a row matched
update_transaction_commit(p) ==
    /\ pc[p] = "upd_commit"
    /\ Commit(p)
    /\ pc' = [pc EXCEPT ![p] = "ret"]
    /\ ret' = [ret EXCEPT ![p] = [kind |-> "updated", id |-> args[p].id]]
    /\ UNCHANGED <<args, hist>>

\* ------------------------------------------------------- delete_transaction

\* line 81: DELETE FROM transactions WHERE id = ?
DeleteRow(t, id) == {r \in t : r.id # id}

\* line 78
delete_transaction(p, ids) ==
    /\ pc[p] = "idle"
    /\ \E id \in ids :
          args' = [args EXCEPT ![p] = [op |-> "delete", id |-> id]]
    /\ pc' = [pc EXCEPT ![p] = "del_exec"]
    /\ UNCHANGED <<rows, seq, lock, wrows, wseq, ret, hist>>

\* line 81
delete_transaction_execute(p) ==
    /\ pc[p] = "del_exec"
    /\ CanWrite(p)
    /\ wrows' = DeleteRow(ViewRows(p), args[p].id)
    /\ wseq' = ViewSeq(p)
    /\ lock' = p
    /\ pc' = [pc EXCEPT ![p] = "del_commit"]
    /\ UNCHANGED <<rows, seq, args, ret, hist>>

\* lines 82-83: commit and confirmation, whether or not a row matched
delete_transaction_commit(p) ==
    /\ pc[p] = "del_commit"
    /\ Commit(p)
    /\ pc' = [pc EXCEPT ![p] = "ret"]
    /\ ret' = [ret EXCEPT ![p] = [kind |-> "deleted", id |-> args[p].id]]
    /\ removed' = removed \cup (RowIds(rows) \ RowIds(ViewRows(p)))
    /\ deleted' = deleted \cup {args[p].id}
    /\ deletedAssigned' = deletedAssigned \cup ({args[p].id} \cap (1..ViewSeq(p)))
    /\ UNCHANGED <<args, created, nCreated, doneAtCall>>

\* -------------------------------------------------------------- get_balance

RECURSIVE SumAmount(_)
SumAmount(t) ==
    IF t = {} THEN 0
    ELSE LET r == CHOOSE x \in t : TRUE IN r.amount + SumAmount(t \ {r})

\* lines 89-90: SELECT type, SUM(amount) ... GROUP BY type, as a dict:
\* a type without rows has no key
GroupSum(t) == [ty \in {r.type : r \in t} |-> SumAmount({r \in t : r.type = ty})]

\* lines 92-93: results.get(key, 0.0)
Get(d, key, default) == IF key \in DOMAIN d THEN d[key] ELSE default

\* the difference taken the wrong way round
BalanceOf_Swapped(t) ==
    LET results == GroupSum(t)
        credits == Get(results, "credit", 0)
        expenses == Get(results, "expense", 0)
    IN [kind |-> "balance", total_credit |-> credits,
        total_expense |-> expenses, net_balance |-> expenses - credits]

\* lines 92-95; the amounts of the model are whole numbers, which the
\* f-string's :.2f renders exactly
BalanceOf(t) ==
    LET results == GroupSum(t)
        credits == Get(results, "credit", 0)
        expenses == Get(results, "expense", 0)
    IN [kind |-> "balance", total_credit |-> credits,
        total_expense |-> expenses, net_balance |-> credits - expenses]

\* line 86
get_balance(p) ==
    /\ pc[p] = "idle"
    /\ args' = [args EXCEPT ![p] = [op |-> "balance"]]
    /\ pc' = [pc EXCEPT ![p] = "bal_read"]
    /\ UNCHANGED <<rows, seq, lock, wrows, wseq, ret, hist>>

\* lines 88-95: one SELECT over the committed table
get_balance_select(p) ==
    /\ pc[p] = "bal_read"
    /\ pc' = [pc EXCEPT ![p] = "ret"]
    /\ ret' = [ret EXCEPT ![p] = BalanceOf(ViewRows(p))]
    /\ UNCHANGED <<rows, seq, lock, wrows, wseq, args, hist>>

\* ------------------------------------------------------------------ callers

\* the caller takes the result; it may call again
Return(p) ==
    /\ pc[p] = "ret"
    /\ pc' = [pc EXCEPT ![p] = "idle"]
    /\ args' = [args EXCEPT ![p] = NoArgs]
    /\ ret' = [ret EXCEPT ![p] = NoRet]
    /\ doneAtCall' = [doneAtCall EXCEPT ![p] = {}]
    /\ UNCHANGED <<rows, seq, lock, wrows, wseq,
                   created, nCreated, removed, deleted, deletedAssigned>>

\* One caller, one call at a time, over the full input sets; its deletes name
\* ids that have been assigned (SpecConc deletes any id)
AddInputs ==
    [amount : Amounts, category : CategoryInputs, subcategory : SubcategoryInputs,
     type : TypeInputs, note : Notes]

Next ==
    \E p \in {"c1"} :
        \/ add_transaction(p, AddInputs)
        \/ add_transaction_insert(p)
        \/ add_transaction_commit(p)
        \/ list_transactions(p, Limits)
        \/ list_transactions_select(p)
        \/ update_transaction(p, Ids, OptAmounts, OptNotes)
        \/ update_transaction_amount(p)
        \/ update_transaction_note(p)
        \/ update_transaction_commit(p)
        \/ delete_transaction(p, 1..seq)
        \/ delete_transaction_execute(p)
        \/ delete_transaction_commit(p)
        \/ get_balance(p)
        \/ get_balance_select(p)
        \/ Return(p)

Spec == Init /\ [][Next]_vars

\* Two callers whose calls interleave at every await, over narrow input sets
AddInputsConc ==
    [amount : {40}, category : {"food"}, subcategory : {"groceries"},
     type : {"expense", "refund"}, note : {""}]

NextConc ==
    \E p \in Procs :
        \/ add_transaction(p, AddInputsConc)
        \/ add_transaction_insert(p)
        \/ add_transaction_commit(p)
        \/ list_transactions(p, Limits)
        \/ list_transactions_select(p)
        \/ update_transaction(p, Ids, {Some(100)}, {None})
        \/ update_transaction_amount(p)
        \/ update_transaction_note(p)
        \/ update_transaction_commit(p)
        \/ delete_transaction(p, Ids)
        \/ delete_transaction_execute(p)
        \/ delete_transaction_commit(p)
        \/ Return(p)

SpecConc == Init /\ [][NextConc]_vars

\* ------------------------------------------------------------------- claims

ValidTypes == {"expense", "credit"}
InCatalog(category, subcategory) ==
    \E c \in DOMAIN Catalog : c = category /\ subcategory \in Catalog[c]
RowWithId(t, id) == CHOOSE r \in t : r.id = id
Listed(result) == {result.rows[k] : k \in 1..Len(result.rows)}

\* C1: an add_transaction whose (category, subcategory) pair is not in the
\* catalog returns the validation error at once and writes nothing: the
\* stored transactions are the same after the call as before it.
C1_InvalidPairRejected ==
    [][\A p \in Procs :
          (/\ pc[p] = "idle"
           /\ args'[p].op = "add"
           /\ ~InCatalog(args'[p].category, args'[p].subcategory))
          => (/\ pc'[p] = "ret"
              /\ ret'[p].kind = "invalid"
              /\ rows' = rows /\ seq' = seq
              /\ wrows' = wrows /\ wseq' = wseq /\ lock' = lock)]_vars

\* C1 witness: an invalid pair was refused while the store holds rows
C1_Witness ==
    \E p \in Procs :
        /\ pc[p] = "ret" /\ ret[p].kind = "invalid"
        /\ args[p].category = "food" /\ args[p].subcategory = "flight"
        /\ rows # {}

\* C2: an add_transaction with a pair of the catalog and a type in
\* {expense, credit} goes through every step and adds exactly one row, with a
\* fresh id, category "<category>:<subcategory>", and the amount, type and
\* note supplied; the rows stored before are all still there, unchanged.
C2_ValidAddInsertsOneRow ==
    [][\A p \in Procs :
          /\ (/\ pc[p] = "idle"
              /\ args'[p].op = "add"
              /\ InCatalog(args'[p].category, args'[p].subcategory))
             => pc'[p] = "add_insert"
          /\ (/\ pc[p] = "add_insert" /\ pc'[p] # "add_insert"
              /\ args[p].type \in ValidTypes)
             => pc'[p] = "add_commit"
          /\ (pc[p] = "add_commit" /\ pc'[p] # "add_commit")
             => (/\ ret'[p].kind = "recorded"
                 /\ rows \subseteq rows'
                 /\ Cardinality(rows' \ rows) = 1
                 /\ \A r \in rows' \ rows :
                       /\ r.id \notin RowIds(rows)
                       /\ r.category = args[p].category \o ":" \o args[p].subcategory
                       /\ r.amount = args[p].amount
                       /\ r.type = args[p].type
                       /\ r.note = args[p].note)]_vars

\* C2 witness: a credit under travel:flight was recorded next to an older row
C2_Witness ==
    \E p \in Procs :
        /\ pc[p] = "ret" /\ ret[p].kind = "recorded"
        /\ args[p].type = "credit"
        /\ Cardinality(rows) = 2
        /\ \E r \in rows : r.id = seq /\ r.category = "travel:flight" /\ r.type = "credit"

\* C3: update_transaction(id, amount=0) on a stored transaction sets its
\* amount to 0, and a supplied empty note sets its note to "".
C3_ZeroAmountApplied ==
    [][\A p \in Procs :
          (/\ pc[p] = "upd_commit" /\ pc'[p] = "ret"
           /\ args[p].id \in RowIds(rows))
          => (/\ args[p].id \in RowIds(rows')
              /\ args[p].amount = Some(0) => RowWithId(rows', args[p].id).amount = 0
              /\ args[p].note = Some("") => RowWithId(rows', args[p].id).note = "")]_vars

\* C4: update_transaction with an id no stored transaction has ends in a
\* NotFoundError, not a confirmation, and leaves the store unchanged.
C4_UpdateMissingIdNotFound ==
    [][\A p \in Procs :
          (/\ pc[p] = "upd_commit" /\ pc'[p] = "ret"
           /\ args[p].id \notin RowIds(rows))
          => (ret'[p].kind = "NotFoundError" /\ rows' = rows)]_vars

\* C5: N completed creates got N pairwise distinct ids; every created row
\* is stored unless a delete removed it (no lost write) and no two stored
\* rows share an id; a create receives an id larger than the id of every
\* create that had completed when it was called.
C5_UniqueIncreasingIds ==
    /\ Cardinality(created) = nCreated
    /\ RowIds(rows) = created \ removed
    /\ Cardinality(RowIds(rows)) = Cardinality(rows)
    /\ \A p \in Procs :
          (pc[p] = "add_commit" /\ lock = p)
          => \A i \in RowIds(wrows) \ RowIds(rows) : \A j \in doneAtCall[p] : j < i
    /\ \A i \in created : \A j \in RowIds(wrows) \ created : i < j

\* C5 witness: two creates, each called before the other completed, both done
C5_Witness ==
    /\ nCreated = 2
    /\ \A p \in Procs :
          pc[p] = "ret" /\ ret[p].kind = "recorded" /\ doneAtCall[p] = {}

\* C6 as claimed: once delete_transaction(id) has completed, no later
\* list_transactions returns a record with that id, and a second
\* delete_transaction(id) leaves the store unchanged and confirms as the first.
C6_DeletedNeverListed ==
    [][\A p \in Procs :
          /\ (pc[p] = "list_read" /\ pc'[p] = "ret")
             => \A r \in Listed(ret'[p]) : r.id \notin deleted
          /\ (pc[p] = "del_commit" /\ pc'[p] = "ret" /\ args[p].id \in deleted)
             => (rows' = rows /\ ret'[p] = [kind |-> "deleted", id |-> args[p].id])]_vars

\* C6 as amended: once delete_transaction(id) has completed for an id that
\* had been assigned, no later list_transactions returns a record with that
\* id, whatever follows, and a second delete_transaction(id) leaves the
\* store unchanged and confirms as the first.
C6_AssignedDeletedNeverListed ==
    [][\A p \in Procs :
          /\ (pc[p] = "list_read" /\ pc'[p] = "ret")
             => \A r \in Listed(ret'[p]) : r.id \notin deletedAssigned
          /\ (pc[p] = "del_commit" /\ pc'[p] = "ret" /\ args[p].id \in deletedAssigned)
             => (rows' = rows /\ ret'[p] = [kind |-> "deleted", id |-> args[p].id])]_vars

\* C6 witness: a list returned a row created after a delete had removed a row
C6_Witness ==
    \E p \in Procs :
        /\ pc[p] = "ret" /\ ret[p].kind = "rows"
        /\ \E r \in Listed(ret[p]) : \E i \in deletedAssigned : i < r.id

\* C7: every stored transaction has type expense or credit, and an
\* add_transaction with another type has stored no row when it returns.
C7_TypeIsExpenseOrCredit ==
    /\ \A r \in rows \cup wrows : r.type \in ValidTypes
    /\ \A p \in Procs :
          (pc[p] = "ret" /\ args[p].op = "add" /\ args[p].type \notin ValidTypes)
          => ret[p].kind \in {"invalid", "IntegrityError"}

\* C7 witness: a refund under a valid pair was refused by the table
C7_Witness ==
    \E p \in Procs :
        /\ pc[p] = "ret" /\ ret[p].kind = "IntegrityError"
        /\ args[p].type = "refund"
        /\ InCatalog(args[p].category, args[p].subcategory)
        /\ rows # {}

\* C8: no step changes the id, date, category or type of a stored row; an
\* update_transaction removes and adds no row, leaves every row with another
\* id unchanged, and leaves the amount (the note) of its row unchanged when
\* no amount (no note) was supplied.
C8_UpdateFrame ==
    [][/\ \A r \in rows : \A r2 \in rows' :
             r2.id = r.id =>
                (r2.date = r.date /\ r2.category = r.category /\ r2.type = r.type)
       /\ \A p \in Procs :
             (pc[p] \in {"upd_amount", "upd_note", "upd_commit"} /\ pc'[p] # pc[p])
             => /\ RowIds(rows') = RowIds(rows)
                /\ Cardinality(rows') = Cardinality(rows)
                /\ \A r \in rows :
                      LET r2 == RowWithId(rows', r.id)
                      IN /\ r.id # args[p].id => r2 = r
                         /\ args[p].amount = None => r2.amount = r.amount
                         /\ args[p].note = None => r2.note = r.note]_vars

\* C8 witness: an update that supplied only an amount changed it on its row,
\* next to another row
C8_Witness ==
    \E p \in Procs :
        /\ pc[p] = "ret" /\ ret[p].kind = "updated"
        /\ args[p].amount = Some(100) /\ args[p].note = None
        /\ Cardinality(rows) = 2
        /\ \E r \in rows : r.id = args[p].id /\ r.amount = 100 /\ r.note = "n"
        /\ \E r \in rows : r.id # args[p].id /\ r.amount = 40

\* C9: list_transactions(limit) with limit > 0 over n stored rows returns
\* min(limit, n) stored rows in strictly descending id order, every row it
\* leaves out has a smaller id than every row it returns, and the store is
\* unchanged.
C9_ListNewestFirst ==
    [][\A p \in Procs :
          (pc[p] = "list_read" /\ pc'[p] = "ret" /\ args[p].limit > 0)
          => LET res == ret'[p].rows
                 n == Cardinality(rows)
             IN /\ Len(res) = IF args[p].limit < n THEN args[p].limit ELSE n
                /\ Listed(ret'[p]) \subseteq rows
                /\ \A k \in 1..(Len(res) - 1) : res[k].id > res[k + 1].id
                /\ \A r \in rows \ Listed(ret'[p]) :
                      \A q \in Listed(ret'[p]) : r.id < q.id
                /\ rows' = rows /\ seq' = seq]_vars

\* C9 witness: limit 1 over two rows returned the newer one
C9_Witness ==
    \E p \in Procs :
        /\ pc[p] = "ret" /\ ret[p].kind = "rows"
        /\ args[p].limit = 1
        /\ Cardinality(rows) = 2
        /\ Len(ret[p].rows) = 1 /\ ret[p].rows[1].id = 2

\* the amounts of the rows of type ty with ids 1..n, added up id by id
RECURSIVE SumUpTo(_, _, _)
SumUpTo(t, ty, n) ==
    IF n = 0 THEN 0
    ELSE SumUpTo(t, ty, n - 1) +
         (IF \E r \in t : r.id = n /\ r.type = ty THEN RowWithId(t, n).amount ELSE 0)

\* C10: get_balance reports total_credit = the sum of the amounts of the
\* stored credit rows, total_expense = that of the stored expense rows and
\* net_balance = total_credit - total_expense (0/0/0 for an empty store),
\* and does not change the store.
C10_BalanceIsSumByType ==
    [][\A p \in Procs :
          (pc[p] = "bal_read" /\ pc'[p] = "ret")
          => /\ ret'[p].total_credit = SumUpTo(rows, "credit", seq)
             /\ ret'[p].total_expense = SumUpTo(rows, "expense", seq)
             /\ ret'[p].net_balance =
                   SumUpTo(rows, "credit", seq) - SumUpTo(rows, "expense", seq)
             /\ rows = {} => (/\ ret'[p].total_credit = 0
                              /\ ret'[p].total_expense = 0
                              /\ ret'[p].net_balance = 0)
             /\ rows' = rows /\ seq' = seq]_vars

\* C10 witness: a credit of 100 and an expense of 40 give 100 / 40 / 60
C10_Witness ==
    \E p \in Procs :
        /\ pc[p] = "ret" /\ ret[p].kind = "balance"
        /\ \E r \in rows : r.type = "credit" /\ r.amount = 100
        /\ \E r \in rows : r.type = "expense" /\ r.amount = 40
        /\ ret[p].total_credit = 100
        /\ ret[p].total_expense = 40
        /\ ret[p].net_balance = 60

====
